---- MODULE Spec2Model ----
(***************************************************************************)
(* Model of the support heartbeat of nanoclaw: the tick loop               *)
(* (support-heartbeat.ts), the message ledger (ledger.ts) and the routing  *)
(* of one thread through the switchboard (switchboard.ts).                 *)
(*                                                                         *)
(* Strings that the code inspects character by character (message          *)
(* identifiers) are sequences of one-character strings.  Every await of    *)
(* the code is one action: the synchronous code that follows the await is  *)
(* part of the same action, as in the JavaScript event loop.               *)
(***************************************************************************)
EXTENDS Integers, Sequences, FiniteSets, TLC

\* ------------------------------------------------------------------ bounds
\* faults (tick timeouts and process restarts) that a behaviour contains
MaxFaults == 1
MaxIdLen == 2
\* clock readings followed, in units of five minutes
MaxClock == 5
\* threads one listing returns when the tick is followed on its own
MaxListed == 2

\* --------------------------------------------------------------- constants
Threads == {"t1", "t2"}
Listing == <<"t1", "t2">>
ProfileAddress == "Self"
TenantId == "default"
\* A run of runOneHeartbeatTick is either the one tick() awaits ("main") or one
\* that tick() abandoned when the tick timer fired and that is still running
\* ("abandoned"); the model follows at most one abandoned run at a time.
Slots == {"main", "abandoned"}

\* ------------------------------------------------- ledger.ts: identifiers
Alphabet == {"<", ">", " ", "a"}

RECURSIVE SeqsUpTo(_)
SeqsUpTo(n) ==
  IF n = 0 THEN {<<>>}
  ELSE LET shorter == SeqsUpTo(n - 1)
       IN shorter \cup {Append(s, c) : s \in {x \in shorter : Len(x) = n - 1}, c \in Alphabet}

Ids == SeqsUpTo(MaxIdLen)

Bracketed(id) == <<"<">> \o id \o <<">">>

RECURSIVE TrimStart(_)
TrimStart(s) ==
  IF s # <<>> /\ Head(s) = " " THEN TrimStart(Tail(s)) ELSE s

RECURSIVE TrimEnd(_)
TrimEnd(s) ==
  IF s # <<>> /\ s[Len(s)] = " " THEN TrimEnd(SubSeq(s, 1, Len(s) - 1)) ELSE s

Trim(s) == TrimEnd(TrimStart(s))

normalizeMessageId(messageId) ==
  LET t == Trim(messageId)
  IN IF t # <<>> /\ t[1] = "<" /\ t[Len(t)] = ">"
       THEN SubSeq(t, 2, Len(t) - 1)
       ELSE t

\* the rows of a table whose key is the message identifier alone
LedgerKeyRowsOfAnyTenant(led, tenantId, mid) ==
  {r \in led : r.gmail_message_id = mid}

LedgerKeyRows(led, tenantId, mid) ==
  {r \in led : r.tenant_id = tenantId /\ r.gmail_message_id = mid}

hasProcessedIn(led, tenantId, messageId) ==
  IF messageId = <<>> \/ tenantId = "" THEN FALSE
  ELSE LedgerKeyRows(led, tenantId, normalizeMessageId(messageId)) # {}

NewRow(tenantId, mid, threadId, action, escalationReason) ==
  [tenant_id |-> tenantId, gmail_message_id |-> mid, thread_id |-> threadId,
   action |-> action, escalation_reason |-> escalationReason]

markProcessedInsertOrIgnore(led, tenantId, messageId, threadId, action, escalationReason) ==
  IF messageId = <<>> \/ tenantId = "" \/ threadId = "" THEN led
  ELSE LET mid == normalizeMessageId(messageId)
       IN IF LedgerKeyRows(led, tenantId, mid) # {} THEN led
          ELSE led \cup {NewRow(tenantId, mid, threadId, action, escalationReason)}

\* a write that replaces the table by its row (DELETE, then INSERT)
markProcessedFresh(led, tenantId, messageId, threadId, action, escalationReason) ==
  IF messageId = <<>> \/ tenantId = "" \/ threadId = "" THEN led
  ELSE {NewRow(tenantId, normalizeMessageId(messageId), threadId, action, escalationReason)}

markProcessedIn(led, tenantId, messageId, threadId, action, escalationReason) ==
  IF messageId = <<>> \/ tenantId = "" \/ threadId = "" THEN led
  ELSE LET mid == normalizeMessageId(messageId)
           old == LedgerKeyRows(led, tenantId, mid)
       IN IF old = {}
            THEN led \cup {NewRow(tenantId, mid, threadId, action, escalationReason)}
            ELSE (led \ old) \cup
                 {[r EXCEPT !.thread_id = threadId, !.action = action,
                            !.escalation_reason = escalationReason] : r \in old}

\* ------------------------------------------------ mailbox and tick state
VARIABLES
  msgs,                  \* thread id -> its messages, oldest first (the mailbox)
  ledger,                \* rows of the table processed_messages (durable)
  runs,                  \* slot -> one invocation of runOneHeartbeatTick
  timers,                \* number of pending setTimeout(tick, ...) timers
  lastSuccessfulTickAt,  \* FALSE is null, TRUE is a date
  timeouts,              \* ticks that lost the race against the tick timer
  crashes,               \* process restarts so far
  acts,                  \* message id -> side effects done for that message
  lastCalls,             \* arguments of the most recent markProcessed calls
  variant,               \* which runSwitchboard routes the item followed in detail
  call,                  \* one item followed in detail through switchboard and ledger write
  twin,                  \* the same item with the same answers, classified escalate
  query,                 \* the most recent hasProcessed call and how it ended
  alert,                 \* one call of sendTelegram / sendTelegramEscalationAlert
  health,                \* clock, tick wrapper and /health as the supervisor sees them
  parsed                 \* one call of runTriage: the model's answer and the result

itemVars == <<variant, call, twin>>

unitVars == <<query, alert, health, parsed>>

vars == <<msgs, ledger, runs, timers, lastSuccessfulTickAt,
          timeouts, crashes, acts, lastCalls, variant, call, twin,
          query, alert, health, parsed>>

Digits == <<"1", "2", "3", "4", "5", "6", "7", "8", "9">>
ThreadChar(t) == IF t = "t1" THEN "a" ELSE "b"
\* The Message-ID header of the n-th message of thread t.
MsgIdOf(t, n) == <<"<", ThreadChar(t), Digits[n], ">">>
MaxMsgs == Cardinality(Slots) + 1
AllMids == {MsgIdOf(t, n) : t \in Threads, n \in 1..MaxMsgs}

\* A From header is a display name and an address: "Name <u@x.com>" or "u@x.com".
CustomerFrom == [name |-> "", addr |-> "cust"]
SupportFrom == [name |-> "Support", addr |-> "SELF"]
NoFrom == [name |-> "", addr |-> ""]

CustomerMsg(t, n) == [from |-> CustomerFrom, messageId |-> MsgIdOf(t, n), marker |-> FALSE]
NoIdMsg(t, n) == [from |-> CustomerFrom, messageId |-> <<>>, marker |-> FALSE]
SelfMsg(t, n, mk) == [from |-> SupportFrom, messageId |-> MsgIdOf(t, n), marker |-> mk]
InitialMessages(t) ==
  IF t = "t1"
    THEN {CustomerMsg(t, 1), NoIdMsg(t, 1), SelfMsg(t, 1, FALSE), SelfMsg(t, 1, TRUE)}
    ELSE {CustomerMsg(t, 1)}

NoCur == [thread |-> "", n |-> 0, from |-> NoFrom, messageId |-> <<>>, marker |-> FALSE]
IdleRun ==
  [role |-> "idle", pc |-> "none", list |-> <<>>, idx |-> 0, supportEmail |-> "",
   processed |-> 0, aborted |-> FALSE, cur |-> NoCur, triage |-> "none",
   escFrom |-> "none", reason |-> "", inflight |-> <<>>]
FreshRun == [IdleRun EXCEPT !.role = "racing", !.pc = "list"]

NoActs == [send |-> 0, esc |-> 0, supp |-> 0]

NoOutcome == [action |-> "none", escalationReason |-> "null"]
\* the parts of the program that are followed on their own are not running
NoQuery == [storage |-> "ok", tenantId |-> "", messageId |-> <<>>, result |-> "none"]
NoAlert == [pc |-> "idle"]
NoHealth == [pc |-> "idle"]
NoParse == [pc |-> "idle"]
UnitsIdle ==
  /\ query = NoQuery
  /\ alert = NoAlert
  /\ health = NoHealth
  /\ parsed = NoParse

\* no item is being followed in detail
IdleCall ==
  [pc |-> "idle", triage |-> "none", treason |-> "", hasTo |-> FALSE, log |-> <<>>,
   todo |-> <<>>, after |-> "none", esc |-> 0, labelId |-> FALSE, attempt |-> 0,
   ret |-> "none", detail |-> "", outcome |-> NoOutcome, writes |-> <<>>,
   result |-> "none"]

hasProcessed(tenantId, messageId) == hasProcessedIn(ledger, tenantId, messageId)

Init ==
  /\ msgs \in [Threads -> {<<m>> : m \in UNION {InitialMessages(t) : t \in Threads}}]
  /\ \A t \in Threads : msgs[t][1] \in InitialMessages(t)
  /\ ledger = {}
  /\ runs = [s \in Slots |-> IF s = "main" THEN FreshRun ELSE IdleRun]
  /\ timers = 0
  /\ lastSuccessfulTickAt = FALSE
  /\ timeouts = 0
  /\ crashes = 0
  /\ acts = [m \in AllMids |-> NoActs]
  /\ lastCalls = <<>>
  /\ variant = "switchboard.ts"
  /\ call = IdleCall
  /\ twin = IdleCall
  /\ UnitsIdle

\* --------------------------------------------- support-heartbeat.ts: tick
toLowerCase(a) == IF a \in {"SELF", "Self"} THEN "self" ELSE a

emailFromFromHeader(from) == toLowerCase(from.addr)

SkipFromSupportNever(fromEmail, supportEmail) == FALSE

SkipFromSupport(fromEmail, supportEmail) ==
  fromEmail # "" /\ supportEmail # "" /\ fromEmail = supportEmail

SkipProcessedNever(messageId) == FALSE

SkipProcessed(messageId) == hasProcessed(TenantId, messageId)

\* a tick that would report ok whenever it ran to the end
TickResultOfAnyRun(processed) == IF processed >= 0 THEN "ok" ELSE "no_tick"

\* return processed > 0 ? 'ok' : 'no_tick'
TickResult(processed) == IF processed > 0 THEN "ok" ELSE "no_tick"

ScheduleNextUnlessTimedOut(n, result) == IF result = "timeout" THEN n ELSE n + 1

\* finally { setTimeout(tick, HEARTBEAT_INTERVAL_MS) }
ScheduleNext(n, result) == n + 1

Racing == {s \in Slots : runs[s].role = "racing"}
Live == {s \in Slots : runs[s].role # "idle"}

\* The continuation of tick() after Promise.race settled with `result`.
TickSettled(result) ==
  /\ timers' = ScheduleNext(timers, result)
  /\ lastSuccessfulTickAt' =
       IF result \in {"ok", "no_tick"} THEN TRUE ELSE lastSuccessfulTickAt

WrapperUnchanged == UNCHANGED <<timers, lastSuccessfulTickAt>>

\* runOneHeartbeatTick returned or threw; only the raced run is listened to.
EndRun(s, result) ==
  /\ runs' = [runs EXCEPT ![s] = IdleRun]
  /\ IF runs[s].role = "racing" THEN TickSettled(result) ELSE WrapperUnchanged

GoTo(s, r) ==
  /\ runs' = [runs EXCEPT ![s] = r]
  /\ WrapperUnchanged

\* `continue` / end of the loop body: fetch the next thread or return.
NextItem(s, r) ==
  IF r.idx < Len(r.list)
    THEN GoTo(s, [r EXCEPT !.idx = @ + 1, !.pc = "getThread", !.cur = NoCur,
                           !.triage = "none", !.escFrom = "none", !.reason = ""])
    ELSE EndRun(s, TickResult(r.processed))

\* markProcessed(...); appendMemoryLog(...); processed++ and on to the next item.
MarkAndNext(s, action, escalationReason) ==
  LET r == runs[s]
  IN /\ ledger' = markProcessedIn(ledger, TenantId, r.cur.messageId, r.cur.thread,
                                  action, escalationReason)
     /\ NextItem(s, [r EXCEPT !.processed = @ + 1])

\* without the catch block the exception would reject runOneHeartbeatTick
CaughtNowhere(s) == EndRun(s, "threw")

\* catch (err) { await performEscalation(... scenario: 'system' ...) }
Caught(s) ==
  GoTo(s, [runs[s] EXCEPT !.pc = "escDraft", !.escFrom = "catch",
                          !.reason = "Heartbeat error", !.triage = "none"])

\* a switchboard that asks for a new classification instead of escalating
EscalateReclassifies(s, r, reason) ==
  GoTo(s, [r EXCEPT !.pc = "triage", !.reason = reason])

\* the switchboard calls performEscalation and will return escalated(reason)
Escalate(s, r, reason) ==
  GoTo(s, [r EXCEPT !.pc = "escDraft", !.escFrom = "switchboard", !.reason = reason,
                    !.triage = "none"])

Bump(mid, field) == acts' = [acts EXCEPT ![mid][field] = @ + 1]

\* timer of setTimeout(tick, ...) fires: tick() starts runOneHeartbeatTick
StartTick ==
  /\ timers > 0
  /\ Racing = {}
  /\ timers' = timers - 1
  /\ runs' = [runs EXCEPT !["main"] = FreshRun]
  /\ UNCHANGED <<msgs, ledger, lastSuccessfulTickAt, timeouts, crashes, acts,
                 lastCalls>>
  /\ UNCHANGED itemVars
  /\ UNCHANGED unitVars

\* await listRecentThreadIds(...)
ListResolve(s) ==
  /\ runs[s].pc = "list"
  /\ \E outcome \in {"ok", "empty", "throw"} :
       CASE outcome = "throw" -> EndRun(s, "threw")
         [] outcome = "empty" -> EndRun(s, "no_tick")
         [] outcome = "ok" -> GoTo(s, [runs[s] EXCEPT !.pc = "profile", !.list = Listing])
  /\ UNCHANGED <<msgs, ledger, timeouts, crashes, acts, lastCalls>>
  /\ UNCHANGED itemVars
  /\ UNCHANGED unitVars

\* a tick without the try/catch around getProfile: the failure rejects the run
ProfileResolveUncaught(s) ==
  /\ runs[s].pc = "profile"
  /\ \E outcome \in {"ok", "fail"} :
       IF outcome = "fail"
         THEN EndRun(s, "threw")
         ELSE GoTo(s, [runs[s] EXCEPT !.pc = "getThread", !.idx = 1,
                                      !.supportEmail = toLowerCase(ProfileAddress)])
  /\ UNCHANGED <<msgs, ledger, timeouts, crashes, acts, lastCalls>>
  /\ UNCHANGED itemVars
  /\ UNCHANGED unitVars

\* await gmail.users.getProfile(...), then the first getThread is issued
ProfileResolve(s) ==
  /\ runs[s].pc = "profile"
  /\ \E outcome \in {"ok", "fail"} :
       IF outcome = "fail"
         THEN EndRun(s, "no_tick")
         ELSE GoTo(s, [runs[s] EXCEPT !.pc = "getThread", !.idx = 1,
                                      !.supportEmail = toLowerCase(ProfileAddress)])
  /\ UNCHANGED <<msgs, ledger, timeouts, crashes, acts, lastCalls>>
  /\ UNCHANGED itemVars
  /\ UNCHANGED unitVars

\* await getThread(gmail, threadId) and the three skip tests that follow it
GetThreadResolve(s) ==
  /\ runs[s].pc = "getThread"
  /\ \E outcome \in {"ok", "throw"} :
       IF outcome = "throw"
         THEN EndRun(s, "threw")
         ELSE LET r == runs[s]
                  t == r.list[r.idx]
                  n == Len(msgs[t])
                  latestMessage == msgs[t][n]
                  messageId == Trim(latestMessage.messageId)
                  fromEmail == emailFromFromHeader(latestMessage.from)
              IN IF \/ messageId = <<>>
                    \/ SkipFromSupport(fromEmail, r.supportEmail)
                    \/ SkipProcessed(messageId)
                   THEN NextItem(s, r)
                   ELSE GoTo(s, [r EXCEPT !.pc = "triage",
                                          !.cur = [thread |-> t, n |-> n,
                                                   from |-> latestMessage.from,
                                                   messageId |-> messageId,
                                                   marker |-> latestMessage.marker]])
  /\ UNCHANGED <<msgs, ledger, timeouts, crashes, acts, lastCalls>>
  /\ UNCHANGED itemVars
  /\ UNCHANGED unitVars

\* ------------------------------------------ triage.ts and switchboard.ts
\* grokComplete honours the abort signal: an aborted run gets no result.
TriageOutcomes(r) ==
  IF r.aborted THEN {"null"}
  ELSE {"null", "ignore", "escalate", "shopify_lookup", "auto_reply"}

\* await runTriage(...), then runSwitchboard up to its first await
TriageResolve(s) ==
  /\ runs[s].pc = "triage"
  /\ \E triage \in TriageOutcomes(runs[s]) :
       LET r == [runs[s] EXCEPT !.triage = triage]
       IN CASE triage = "null" -> Escalate(s, r, "Triage output invalid.")
            [] triage = "ignore" -> GoTo(s, [r EXCEPT !.pc = "archiveIgnore"])
            [] triage = "escalate" -> Escalate(s, r, "model reason")
            [] triage = "shopify_lookup" ->
                 \E configured \in BOOLEAN :
                   IF configured
                     THEN GoTo(s, [r EXCEPT !.pc = "lookup"])
                     ELSE Escalate(s, r, "Shopify not configured")
            [] triage = "auto_reply" -> GoTo(s, [r EXCEPT !.pc = "gen"])
  /\ UNCHANGED <<msgs, ledger, timeouts, crashes, acts, lastCalls>>
  /\ UNCHANGED itemVars
  /\ UNCHANGED unitVars

\* case 'ignore': await archiveThread(...); return { action: 'ignore' }
ArchiveIgnoreResolve(s) ==
  /\ runs[s].pc = "archiveIgnore"
  /\ \E outcome \in {"ok", "throw"} :
       IF outcome = "ok"
         THEN /\ Bump(runs[s].cur.messageId, "supp")
              /\ MarkAndNext(s, "ignore", "null")
         ELSE /\ Caught(s)
              /\ UNCHANGED <<acts, ledger>>
  /\ UNCHANGED <<msgs, timeouts, crashes, lastCalls>>
  /\ UNCHANGED itemVars
  /\ UNCHANGED unitVars

\* await lookupOrder(...)
LookupResolve(s) ==
  /\ runs[s].pc = "lookup"
  /\ \E outcome \in {"order", "no_order", "failed"} :
       IF outcome = "failed"
         THEN Escalate(s, runs[s], "Shopify lookup failed.")
         ELSE GoTo(s, [runs[s] EXCEPT !.pc = "gen"])
  /\ UNCHANGED <<msgs, ledger, timeouts, crashes, acts, lastCalls>>
  /\ UNCHANGED itemVars
  /\ UNCHANGED unitVars

\* await runReplyGenerator(...)
GenResolve(s) ==
  /\ runs[s].pc = "gen"
  /\ \E outcome \in {"body", "escalate", "throw"} :
       CASE outcome = "body" -> GoTo(s, [runs[s] EXCEPT !.pc = "send"])
         [] outcome = "escalate" -> Escalate(s, runs[s], "model reason")
         [] outcome = "throw" -> Caught(s)
  /\ UNCHANGED <<msgs, ledger, timeouts, crashes, acts, lastCalls>>
  /\ UNCHANGED itemVars
  /\ UNCHANGED unitVars

\* await sendReply(...): the reply becomes the last message of the thread
SendResolve(s) ==
  /\ runs[s].pc = "send"
  /\ \E sent \in BOOLEAN :
       LET r == runs[s]
           t == r.cur.thread
       IN IF sent
            THEN /\ msgs' = [msgs EXCEPT ![t] = Append(@, SelfMsg(t, Len(@) + 1, FALSE))]
                 /\ Bump(r.cur.messageId, "send")
                 /\ GoTo(s, [r EXCEPT !.pc = "archive"])
            ELSE /\ Escalate(s, r, "Gmail send failed.")
                 /\ UNCHANGED <<msgs, acts>>
  /\ UNCHANGED <<ledger, timeouts, crashes, lastCalls>>
  /\ UNCHANGED itemVars
  /\ UNCHANGED unitVars

\* if (sent) { await archiveThread(...); return { action: triage.action } }
ArchiveResolve(s) ==
  /\ runs[s].pc = "archive"
  /\ \E outcome \in {"ok", "throw"} :
       IF outcome = "ok"
         THEN MarkAndNext(s, runs[s].triage, "null")
         ELSE Caught(s) /\ UNCHANGED ledger
  /\ UNCHANGED <<msgs, timeouts, crashes, acts, lastCalls>>
  /\ UNCHANGED itemVars
  /\ UNCHANGED unitVars

\* performEscalation: label, draft, mark handled
EscDraftResolve(s) ==
  /\ runs[s].pc = "escDraft"
  /\ Bump(runs[s].cur.messageId, "esc")
  /\ GoTo(s, [runs[s] EXCEPT !.pc = "escAlert"])
  /\ UNCHANGED <<msgs, ledger, timeouts, crashes, lastCalls>>
  /\ UNCHANGED itemVars
  /\ UNCHANGED unitVars

\* performEscalation: alert; then the caller records the outcome
EscAlertResolve(s) ==
  /\ runs[s].pc = "escAlert"
  /\ MarkAndNext(s, "escalated", runs[s].reason)
  /\ UNCHANGED <<msgs, timeouts, crashes, acts, lastCalls>>
  /\ UNCHANGED itemVars
  /\ UNCHANGED unitVars

RunStep(s) ==
  \/ ListResolve(s)
  \/ ProfileResolve(s)
  \/ GetThreadResolve(s)
  \/ TriageResolve(s)
  \/ ArchiveIgnoreResolve(s)
  \/ LookupResolve(s)
  \/ GenResolve(s)
  \/ SendResolve(s)
  \/ ArchiveResolve(s)
  \/ EscDraftResolve(s)
  \/ EscAlertResolve(s)

\* the tick timer wins the race: controller.abort(); the run is not stopped
Timeout ==
  /\ timeouts + crashes < MaxFaults
  /\ runs["main"].role = "racing"
  /\ runs["abandoned"].role = "idle"
  /\ runs' = [runs EXCEPT
                !["main"] = IdleRun,
                !["abandoned"] =
                  [runs["main"] EXCEPT
                     !.role = "zombie", !.aborted = TRUE,
                     !.inflight = IF runs["main"].pc = "triage"
                                    THEN runs["main"].cur.messageId ELSE <<>>]]
  /\ TickSettled("timeout")
  /\ timeouts' = timeouts + 1
  /\ UNCHANGED <<msgs, ledger, crashes, acts, lastCalls>>
  /\ UNCHANGED itemVars
  /\ UNCHANGED unitVars

\* the process dies and is started again: startSupportHeartbeat calls tick()
Crash ==
  /\ timeouts + crashes < MaxFaults
  /\ crashes' = crashes + 1
  /\ runs' = [s \in Slots |-> IF s = "main" THEN FreshRun ELSE IdleRun]
  /\ timers' = 0
  /\ lastSuccessfulTickAt' = FALSE
  /\ UNCHANGED <<msgs, ledger, timeouts, acts, lastCalls>>
  /\ UNCHANGED itemVars
  /\ UNCHANGED unitVars

Next ==
  \/ StartTick
  \/ \E s \in Slots : RunStep(s)
  \/ Timeout
  \/ Crash

Spec == Init /\ [][Next]_vars

TypeOK ==
  /\ \A t \in Threads : Len(msgs[t]) \in 1..MaxMsgs
  /\ timers \in 0..1
  /\ timeouts \in 0..MaxFaults
  /\ crashes \in 0..MaxFaults

\* -------------------------------------------- the ledger driven directly
\* hasProcessed / markProcessed called with arbitrary arguments: identifiers
\* over Alphabet, bare or bracketed, two tenants, two outcomes.
LedgerTenants == {"default", "other"}
LedgerOutcomes ==
  {[action |-> "auto_reply", escalationReason |-> "null"],
   [action |-> "escalated", escalationReason |-> "Gmail send failed."]}

LedgerInit ==
  /\ msgs = [t \in Threads |-> <<CustomerMsg(t, 1)>>]
  /\ ledger = {}
  /\ runs = [s \in Slots |-> IdleRun]
  /\ timers = 0
  /\ lastSuccessfulTickAt = FALSE
  /\ timeouts = 0
  /\ crashes = 0
  /\ acts = [m \in AllMids |-> NoActs]
  /\ lastCalls = <<>>
  /\ variant = "switchboard.ts"
  /\ call = IdleCall
  /\ twin = IdleCall
  /\ UnitsIdle

LedgerMark ==
  /\ Len(lastCalls) < 2
  /\ \E tenantId \in LedgerTenants, id \in Ids, bracketed \in BOOLEAN, o \in LedgerOutcomes :
       LET messageId == IF bracketed THEN Bracketed(id) ELSE id
       IN /\ ledger' = markProcessedIn(ledger, tenantId, messageId, "t1",
                                       o.action, o.escalationReason)
          /\ lastCalls' = Append(lastCalls,
                                 [tenantId |-> tenantId, id |-> id, messageId |-> messageId,
                                  action |-> o.action,
                                  escalationReason |-> o.escalationReason])
  /\ UNCHANGED <<msgs, runs, timers, lastSuccessfulTickAt, timeouts, crashes, acts>>
  /\ UNCHANGED itemVars
  /\ UNCHANGED unitVars

LedgerNext == LedgerMark

LedgerSpec == LedgerInit /\ [][LedgerNext]_vars

\* ------------- one item in detail: runSwitchboard, performEscalation, ledger
\* The two runSwitchboard that return an outcome for the ledger are followed:
\* the one of switchboard.ts:331 (ignore / archive, every escalation through
\* performEscalation) and the later one kept in memory.ts:426 (no_reply,
\* status labels, holding replies, escalations in line). The earliest one
\* (switchboard.ts:549) returns nothing and is not what the tick calls.
Variants == {"switchboard.ts", "memory.ts"}

\* for (let attempt = 0; attempt < 3; attempt++)
MaxAlertAttempts == 3
\* [1000, 3000, 8000][attempt]
Backoffs == <<"1000", "3000", "8000">>

TriageActions(v) ==
  IF v = "switchboard.ts"
    THEN {"ignore", "escalate", "shopify_lookup", "auto_reply"}
    ELSE {"no_reply", "escalate", "shopify_lookup", "auto_reply"}

\* triage.escalation_reason || triage.reason: empty or not
TriageReasons == {"", "model reason"}

\* what lookupOrder answers: {success, order | null, escalation_needed}
LookupResult(r) ==
  CASE r = "order" -> [success |-> TRUE, order |-> TRUE, escalation_needed |-> FALSE]
    [] r = "no_order" -> [success |-> TRUE, order |-> FALSE, escalation_needed |-> FALSE]
    [] r = "ambiguous" -> [success |-> TRUE, order |-> FALSE, escalation_needed |-> TRUE]
    [] r = "failed" -> [success |-> FALSE, order |-> FALSE, escalation_needed |-> FALSE]
LookupAnswers == {"order", "no_order", "ambiguous", "failed"}

\* what runReplyGenerator answers, a {body, escalate} result or an exception
\* (SOUL.md unreadable): a body, escalate with an empty body, an empty body
\* with escalate = false, (memory.ts) escalate with a holding reply
GenAnswers(v) ==
  IF v = "switchboard.ts" THEN {"body", "empty", "escalate", "throw"}
  ELSE {"body", "empty", "escalate", "holding", "throw"}

\* !body.trim()
EmptyBody(r) == r \in {"empty", "escalate"}
\* escalate
EscalateFlag(r) == r \in {"escalate", "holding"}

\* switchboard.ts: if (escalate || !body.trim()); memory.ts: if (escalate)
GenEscalates(v, r) ==
  IF v = "switchboard.ts" THEN EscalateFlag(r) \/ EmptyBody(r) ELSE EscalateFlag(r)

NewCall(triage, treason, hasTo) ==
  [IdleCall EXCEPT !.pc = "start", !.triage = triage, !.treason = treason,
                   !.hasTo = hasTo, !.result = "running"]

Effect(fn, res) == [fn |-> fn, res |-> res]
Logged(c, fn, res) == [c EXCEPT !.log = Append(@, Effect(fn, res))]

Escalated(reason) == [action |-> "escalated", escalationReason |-> reason]
Plain(action) == [action |-> action, escalationReason |-> "null"]

\* x || y for strings
OrElse(x, y) == IF x # "" THEN x ELSE y

\* performEscalation(gmail, thread, options, signal) is entered; ret is the
\* caller: runSwitchboard or the catch block of runOneHeartbeatTick
EnterEsc(c, ret, detail) ==
  [c EXCEPT !.pc = "label", !.esc = @ + 1, !.ret = ret, !.detail = detail,
            !.labelId = FALSE, !.todo = <<>>]

\* runSwitchboard escalates through performEscalation and will return escalated
EscalateVia(c, detail, reason) ==
  EnterEsc([c EXCEPT !.outcome = Escalated(reason)], "switchboard", detail)

\* an exception leaves runSwitchboard (or markProcessed) inside the try block
\* of runOneHeartbeatTick: catch (err) { await performEscalation(..system..) }
Thrown(c) == EnterEsc([c EXCEPT !.outcome = NoOutcome], "catch", "exception")

\* sendTelegramEscalationAlert is called
StartAlert(c, after) == [c EXCEPT !.pc = "alert", !.attempt = 0, !.after = after]

\* the next call of a straight sequence of awaited calls, then return outcome
RunTail(c) ==
  IF c.todo = <<>> THEN [c EXCEPT !.pc = "write"]
  ELSE IF Head(c.todo) = "sendTelegramEscalationAlert"
         THEN StartAlert([c EXCEPT !.todo = Tail(@)], "tail")
         ELSE [c EXCEPT !.pc = "tail"]

Straight(c, calls, outcome) == RunTail([c EXCEPT !.todo = calls, !.outcome = outcome])

\* memory.ts: markThreadHandled; sendTelegramEscalationAlert; applyExclusiveStatusLabel
InlineEscalation(c, reason) ==
  Straight(c, <<"markThreadHandled", "sendTelegramEscalationAlert",
                "applyExclusiveStatusLabel">>, Escalated(reason))

\* an escalation terminal that records the item in the ledger itself
EscReturnRecording(c) ==
  [c EXCEPT !.pc = "write", !.writes = Append(@, Escalated(c.detail))]

\* performEscalation returns to its caller
EscReturn(c) ==
  IF c.ret = "switchboard" THEN [c EXCEPT !.pc = "write"]
  ELSE [c EXCEPT !.pc = "writeCatch", !.outcome = Escalated("Heartbeat error")]

AlertDone(c) == IF c.after = "tail" THEN RunTail(c) ELSE EscReturn(c)

\* a terminal that marks the thread handled whether or not the draft exists
AfterDraftMarking(c, created) ==
  [c EXCEPT !.pc = IF c.labelId THEN "markHandled" ELSE "starFallback"]

\* if (!draftCreated) fallback alert; else Step 3: mark the thread as handled
AfterDraft(c, created) ==
  IF created
    THEN [c EXCEPT !.pc = IF c.labelId THEN "markHandled" ELSE "starFallback"]
    ELSE [c EXCEPT !.pc = "draftFallback"]

\* without the catch of performEscalation the exception of markThreadHandled
\* would reach the caller: the catch block of the tick, or the tick itself
MarkHandledRethrown(c) ==
  IF c.ret = "switchboard" THEN Thrown(c)
  ELSE [c EXCEPT !.pc = "done", !.result = "propagated"]

\* markThreadHandled / markThreadHandledLegacyFallback rethrow: the catch of
\* performEscalation sends the fallback alert and the main alert is skipped
MarkHandledThrew(c) == [c EXCEPT !.pc = "escFallback"]

\* a failed main alert that would be followed by the fallback alert
AlertFailedWithFallback(c) ==
  IF c.after = "tail" THEN RunTail(c) ELSE [c EXCEPT !.pc = "escFallback"]

\* if (!telegramSuccess) logger.warn(...): nothing else follows a failed alert
AlertFailed(c) == AlertDone(c)

\* the answers an await of the item can get
Answers(v, c) ==
  CASE c.pc = "start" ->
         IF c.triage = "shopify_lookup" THEN {"configured", "no_url", "no_token"}
         ELSE {"go"}
    [] c.pc = "lookup" -> LookupAnswers
    [] c.pc = "gen" -> GenAnswers(v)
    [] c.pc = "send" -> {"ok", "fail"}
    [] c.pc = "tail" ->
         IF Head(c.todo) = "sendReply" THEN {"ok", "fail"} ELSE {"ok", "throw"}
    [] c.pc = "alert" -> {"ok", "retry", "reject"}
    [] c.pc \in {"label", "draft", "draftFallback", "escFallback"} -> {"ok", "fail"}
    [] c.pc \in {"markHandled", "starFallback", "write", "writeCatch"} -> {"ok", "throw"}
    [] OTHER -> {}

\* a switchboard that escalates whatever the classification is
RouteAllEscalate(c, r) == EscalateVia(c, c.treason, c.treason)

\* runSwitchboard of switchboard.ts up to its first await
Route1(c, r) ==
  CASE c.triage = "null" ->
         EscalateVia(c, "Triage output invalid.", "Triage output invalid.")
    [] c.triage = "ignore" -> Straight(c, <<"archiveThread">>, Plain("ignore"))
    [] c.triage = "escalate" -> EscalateVia(c, c.treason, c.treason)
    [] c.triage = "shopify_lookup" ->
         IF r = "configured" THEN [c EXCEPT !.pc = "lookup"]
         ELSE EscalateVia(c, r, r)
    [] c.triage = "auto_reply" -> [c EXCEPT !.pc = "gen"]

\* runSwitchboard of memory.ts up to its first await
Route2(c, r) ==
  CASE c.triage = "null" ->
         EscalateVia(c, "Triage output invalid.", "Triage output invalid.")
    [] c.triage = "no_reply" ->
         Straight(c, <<"applyExclusiveStatusLabel">>, Plain("no_reply"))
    [] c.triage = "escalate" ->
         Straight(c, <<"sendReply", "markThreadHandled", "sendTelegramEscalationAlert",
                       "applyExclusiveStatusLabel">>, Escalated(c.treason))
    [] c.triage = "shopify_lookup" ->
         IF r = "configured" THEN [c EXCEPT !.pc = "lookup"]
         ELSE InlineEscalation(c, r)
    [] c.triage = "auto_reply" -> [c EXCEPT !.pc = "gen"]

\* if (lookup.escalation_needed || !lookup.success) escalate; else generate
LookupEscalatesOnNoOrder(lookup) ==
  lookup.escalation_needed \/ ~lookup.success \/ ~lookup.order

LookupEscalates(lookup) == lookup.escalation_needed \/ ~lookup.success

AfterLookup(v, c, r) ==
  LET c1 == Logged(c, "lookupOrder", r)
  IN IF LookupEscalates(LookupResult(r))
       THEN IF v = "switchboard.ts"
              THEN EscalateVia(c1, "Shopify lookup failed.", "Shopify lookup failed.")
              ELSE InlineEscalation(c1, "Shopify lookup failed.")
       ELSE [c1 EXCEPT !.pc = "gen"]

NoBodyReason == "Reply-generator chose to escalate or returned no body"

AfterGen(v, c, r) ==
  LET c1 == Logged(c, "runReplyGenerator", r)
  IN CASE r = "throw" -> Thrown(c1)
       [] r = "holding" ->
            Straight(c1, <<"sendReply", "applyExclusiveStatusLabel",
                           "sendTelegramEscalationAlert">>,
                     Escalated(OrElse(c.treason, "KB was silent")))
       [] r # "throw" /\ r # "holding" /\ GenEscalates(v, r) ->
            IF v = "switchboard.ts"
              THEN EscalateVia(c1, OrElse(c.treason, NoBodyReason),
                               OrElse(c.treason, NoBodyReason))
              ELSE InlineEscalation(c1, OrElse(c.treason, NoBodyReason))
       [] OTHER -> [c1 EXCEPT !.pc = "send"]

SendFailed(v, c) ==
  IF v = "switchboard.ts"
    THEN EscalateVia(c, "Gmail send failed.", "Gmail send failed.")
    ELSE InlineEscalation(c, "Gmail send failed.")

\* a send whose result is not looked at: every send taken as failed
AfterSendIgnoresResult(v, c, r) == SendFailed(v, Logged(c, "sendReply", r))

AfterSend(v, c, r) ==
  LET c1 == Logged(c, "sendReply", r)
  IN IF r = "ok"
       THEN Straight(c1, IF v = "switchboard.ts" THEN <<"archiveThread">>
                         ELSE <<"applyExclusiveStatusLabel">>,
                     Plain(c.triage))
       ELSE SendFailed(v, c1)

AfterTail(c, r) ==
  LET c1 == Logged(c, Head(c.todo), r)
  IN IF r = "throw" THEN Thrown(c1)
     ELSE RunTail([c1 EXCEPT !.todo = Tail(@)])

\* one fetch of sendTelegramEscalationAlert and what follows it in the loop:
\* ok returns true, retry is a 429, a 5xx or a thrown fetch (backoff, next
\* attempt), reject is any other status (break)
AfterAlert(c, r) ==
  LET c1 == Logged(c, "sendTelegramEscalationAlert", r)
  IN CASE r = "ok" -> AlertDone(c1)
       [] r = "reject" -> AlertFailed(c1)
       [] OTHER ->
            LET c2 == [Logged(c1, "backoff", Backoffs[c.attempt + 1])
                         EXCEPT !.attempt = @ + 1]
            IN IF c2.attempt < MaxAlertAttempts THEN c2 ELSE AlertFailed(c2)

\* the awaits of performEscalation
AfterEsc(c, r) ==
  CASE c.pc = "label" ->
         LET c1 == [Logged(c, "getOrCreateEscalationLabel", r) EXCEPT !.labelId = (r = "ok")]
         IN IF c.hasTo THEN [c1 EXCEPT !.pc = "draft"] ELSE StartAlert(c1, "escReturn")
    [] c.pc = "draft" -> AfterDraft(Logged(c, "createSmartDraft", r), r = "ok")
    [] c.pc = "draftFallback" ->
         StartAlert(Logged(c, "sendTelegramEscalationFallback", r), "escReturn")
    [] c.pc = "markHandled" ->
         IF r = "ok" THEN StartAlert(Logged(c, "markThreadHandled", r), "escReturn")
         ELSE MarkHandledThrew(Logged(c, "markThreadHandled", r))
    [] c.pc = "starFallback" ->
         IF r = "ok"
           THEN StartAlert(Logged(c, "markThreadHandledLegacyFallback", r), "escReturn")
           ELSE MarkHandledThrew(Logged(c, "markThreadHandledLegacyFallback", r))
    [] c.pc = "escFallback" ->
         EscReturn(Logged(c, "sendTelegramEscalationFallback", r))

\* markProcessed(...) of the try block, and of the catch block
AfterWrite(c, r) ==
  LET c1 == Logged(c, "markProcessed", r)
  IN IF r = "ok"
       THEN [c1 EXCEPT !.writes = Append(@, c.outcome), !.pc = "done",
                       !.result = "processed"]
       ELSE IF c.pc = "write" THEN Thrown(c1)
            ELSE [c1 EXCEPT !.pc = "done", !.result = "propagated"]

EscPcs == {"label", "draft", "draftFallback", "markHandled", "starFallback", "escFallback"}

\* the item after the await it waits for was answered r
ItemStep(v, c, r) ==
  CASE c.pc = "start" -> IF v = "switchboard.ts" THEN Route1(c, r) ELSE Route2(c, r)
    [] c.pc = "lookup" -> AfterLookup(v, c, r)
    [] c.pc = "gen" -> AfterGen(v, c, r)
    [] c.pc = "send" -> AfterSend(v, c, r)
    [] c.pc = "tail" -> AfterTail(c, r)
    [] c.pc = "alert" -> AfterAlert(c, r)
    [] c.pc \in EscPcs -> AfterEsc(c, r)
    [] c.pc \in {"write", "writeCatch"} -> AfterWrite(c, r)

ItemBase ==
  /\ msgs = [t \in Threads |-> <<CustomerMsg(t, 1)>>]
  /\ ledger = {}
  /\ runs = [s \in Slots |-> IdleRun]
  /\ timers = 0
  /\ lastSuccessfulTickAt = FALSE
  /\ timeouts = 0
  /\ crashes = 0
  /\ acts = [m \in AllMids |-> NoActs]
  /\ lastCalls = <<>>

ItemFrame ==
  /\ UNCHANGED <<msgs, ledger, runs, timers, lastSuccessfulTickAt, timeouts, crashes,
                 acts, lastCalls, variant>>
  /\ UNCHANGED unitVars

\* one eligible item, any classification
ItemInit ==
  /\ ItemBase
  /\ UnitsIdle
  /\ variant \in Variants
  /\ \E triage \in TriageActions(variant) \cup {"null"}, treason \in TriageReasons,
        hasTo \in BOOLEAN :
       call = NewCall(triage, treason, hasTo)
  /\ twin = IdleCall

ItemAnswer ==
  /\ \E r \in Answers(variant, call) : call' = ItemStep(variant, call, r)
  /\ UNCHANGED twin
  /\ ItemFrame

ItemNext == ItemAnswer

ItemSpec == ItemInit /\ [][ItemNext]_vars

\* the same thread classified null (call) and escalate (twin): both get the
\* same answers from the mailbox, the alert channel and the ledger
TwinInit ==
  /\ ItemBase
  /\ UnitsIdle
  /\ variant \in Variants
  /\ \E treason \in TriageReasons, hasTo \in BOOLEAN :
       /\ call = NewCall("null", treason, hasTo)
       /\ twin = NewCall("escalate", treason, hasTo)

TwinAnswer ==
  /\ \E r \in Answers(variant, call) :
       /\ call' = ItemStep(variant, call, r)
       /\ twin' = IF r \in Answers(variant, twin) THEN ItemStep(variant, twin, r) ELSE twin
  /\ ItemFrame

TwinNext == TwinAnswer

TwinSpec == TwinInit /\ [][TwinNext]_vars

\* ------------------------------------- ledger.ts: hasProcessed and the store
\* getDb() opens the database on first use (mkdirSync, new Database, pragma,
\* exec) and the query is prepared and run on it; either can fail.
StorageStates == {"ok", "open_fails", "query_fails"}

\* a boolean result as a string; "throws" is an exception leaving the function
BoolStr(b) == IF b THEN "true" ELSE "false"

\* hasProcessed(tenantId, messageId): the guard, then getDb().prepare(..).get(..)
\* with nothing that catches
hasProcessedCall(storage, led, tenantId, messageId) ==
  IF messageId = <<>> \/ tenantId = "" THEN "false"
  ELSE IF storage # "ok" THEN "throws"
  ELSE BoolStr(hasProcessedIn(led, tenantId, messageId))

QueryTenants == LedgerTenants \cup {""}

\* a ledger with no row or one row, everything else at rest
StoreInit ==
  /\ ItemBase
  /\ UnitsIdle
  /\ variant = "switchboard.ts"
  /\ call = IdleCall
  /\ twin = IdleCall

StoreFill ==
  /\ ledger = {}
  /\ \E tenantId \in LedgerTenants, id \in Ids, bracketed \in BOOLEAN :
       ledger' = markProcessedIn(ledger, tenantId,
                                 IF bracketed THEN Bracketed(id) ELSE id,
                                 "t1", "auto_reply", "null")
  /\ ledger' # ledger
  /\ UNCHANGED <<msgs, runs, timers, lastSuccessfulTickAt, timeouts, crashes, acts,
                 lastCalls, alert, health, parsed, query>>
  /\ UNCHANGED itemVars

StoreQuery ==
  /\ query = NoQuery
  /\ \E storage \in StorageStates, tenantId \in QueryTenants, id \in Ids,
        bracketed \in BOOLEAN :
       LET messageId == IF bracketed THEN Bracketed(id) ELSE id
       IN query' = [storage |-> storage, tenantId |-> tenantId, messageId |-> messageId,
                    result |-> hasProcessedCall(storage, ledger, tenantId, messageId)]
  /\ UNCHANGED <<msgs, ledger, runs, timers, lastSuccessfulTickAt, timeouts, crashes,
                 acts, lastCalls, alert, health, parsed>>
  /\ UNCHANGED itemVars

StoreNext ==
  \/ StoreFill
  \/ StoreQuery

StoreSpec == StoreInit /\ [][StoreNext]_vars

\* ------------------- tick wrapper, clock and /health (support-heartbeat.ts,
\* part_004): one process from boot, time in units of five minutes
\* const HEALTH_STALE_MS = 15 * 60 * 1000
HealthStale == 3

NullDate == [isNull |-> TRUE, at |-> 0]
DateAt(t) == [isNull |-> FALSE, at |-> t]

\* a wrapper that would stamp every tick, clean or not
LastAfterAnyTick(last, result, now) == DateAt(now)

\* lastSuccessfulTickAt = new Date() is reached only when the race resolved
LastAfter(last, result, now) ==
  IF result \in {"ok", "no_tick"} THEN DateAt(now) ELSE last

\* a probe that would already answer 500 at the threshold
HealthAnswerEarly(last, now) ==
  IF last.isNull THEN 200
  ELSE IF now - last.at >= HealthStale THEN 500 ELSE 200

\* a probe that would measure the age from boot while no tick has succeeded
HealthAnswerSinceBoot(last, now) ==
  IF now - (IF last.isNull THEN 0 ELSE last.at) > HealthStale THEN 500 ELSE 200

\* GET /health: 200 while last === null or ageMs <= HEALTH_STALE_MS, else 500
HealthAnswer(last, now) ==
  IF last.isNull THEN 200
  ELSE IF now - last.at > HealthStale THEN 500 ELSE 200

NoProbe == [status |-> 0, last |-> NullDate, now |-> 0]

\* startSupportHeartbeat: tick() is called at once
BootHealth ==
  [pc |-> "list", now |-> 0, last |-> NullDate, total |-> 0, idx |-> 0,
   processed |-> 0, handled |-> 0, result |-> "none", probe |-> NoProbe]

HealthFrame ==
  /\ UNCHANGED <<msgs, ledger, runs, timers, lastSuccessfulTickAt, timeouts, crashes,
                 acts, lastCalls, query, alert, parsed>>
  /\ UNCHANGED itemVars

TickRunning == health.pc \in {"list", "profile", "loop"}

\* the race of tick() settled with `result`; finally: setTimeout(tick, ...)
Settled(result) ==
  health' = [health EXCEPT !.pc = "waiting", !.result = result,
                           !.last = LastAfter(health.last, result, health.now)]

HealthInit ==
  /\ ItemBase
  /\ variant = "switchboard.ts"
  /\ call = IdleCall
  /\ twin = IdleCall
  /\ health = BootHealth
  /\ query = NoQuery
  /\ alert = NoAlert
  /\ parsed = NoParse

\* the timer of setTimeout(tick, HEARTBEAT_INTERVAL_MS) fires
HealthStartTick ==
  /\ health.pc = "waiting"
  /\ health' = [health EXCEPT !.pc = "list", !.total = 0, !.idx = 0, !.processed = 0,
                              !.handled = 0, !.result = "none"]
  /\ HealthFrame

\* await listRecentThreadIds(...)
HealthList ==
  /\ health.pc = "list"
  /\ \/ Settled("threw")
     \/ Settled("no_tick")
     \/ \E n \in 1..MaxListed : health' = [health EXCEPT !.pc = "profile", !.total = n]
  /\ HealthFrame

\* await gmail.users.getProfile(...): catch { return 'no_tick' }
HealthProfile ==
  /\ health.pc = "profile"
  /\ \/ Settled("no_tick")
     \/ health' = [health EXCEPT !.pc = "loop"]
  /\ HealthFrame

\* one pass of the for loop: the item is skipped, goes through the try block,
\* goes through the catch block, or a call outside the try block throws
HealthItem ==
  /\ health.pc = "loop"
  /\ \E outcome \in {"skipped", "processed", "caught", "threw"} :
       LET counted == outcome \in {"processed", "caught"}
           processed == IF counted THEN health.processed + 1 ELSE health.processed
           h == [health EXCEPT !.idx = @ + 1, !.processed = processed,
                               !.handled = IF counted THEN @ + 1 ELSE @]
       IN IF outcome = "threw"
            THEN Settled("threw")
            ELSE IF h.idx < h.total
                   THEN health' = h
                   ELSE health' = [h EXCEPT !.pc = "waiting",
                                            !.result = TickResult(processed),
                                            !.last = LastAfter(health.last,
                                                               TickResult(processed),
                                                               health.now)]
  /\ HealthFrame

\* the tick timer aborts the controller: the race rejects
HealthTimeout ==
  /\ TickRunning
  /\ Settled("timeout")
  /\ HealthFrame

\* five more minutes on Date.now()
HealthClock ==
  /\ health.now < MaxClock
  /\ health' = [health EXCEPT !.now = @ + 1]
  /\ HealthFrame

\* the supervisor requests GET /health
HealthProbe ==
  /\ health' = [health EXCEPT !.probe = [status |-> HealthAnswer(health.last, health.now),
                                         last |-> health.last, now |-> health.now]]
  /\ HealthFrame

HealthNext ==
  \/ HealthStartTick
  \/ HealthList
  \/ HealthProfile
  \/ HealthItem
  \/ HealthTimeout
  \/ HealthClock
  \/ HealthProbe

HealthSpec == HealthInit /\ [][HealthNext]_vars

\* ----------- switchboard.ts: sendTelegram and sendTelegramEscalationAlert
\* One call of either function; every fetch is answered by an HTTP status or
\* throws (network error, aborted signal); thrown also stands for a read of
\* the error body, res.text(), that throws after a non-2xx status.
AlertFns == {"sendTelegram", "sendTelegramEscalationAlert"}
Statuses == {200, 400, 429, 500, 503}
Responses ==
  [thrown : {FALSE}, status : Statuses]
    \cup [thrown : {TRUE}, status : {0} \cup {s \in Statuses : s > 299}]

\* res.ok
Ok(r) == ~r.thrown /\ r.status >= 200 /\ r.status <= 299

\* every failed fetch retried, whatever its status
RetriedAlways(r) == ~Ok(r)

\* the attempt is followed by a backoff and the next pass of the loop:
\* res.status === 429 || res.status >= 500, or the catch block
Retried(r) == r.thrown \/ (~Ok(r) /\ (r.status = 429 \/ r.status >= 500))

NewAlert(fn, env) ==
  IF fn = "sendTelegram" /\ ~env
    THEN [pc |-> "done", fn |-> fn, attempt |-> 0, log |-> <<>>, result |-> "false"]
    ELSE [pc |-> "fetch", fn |-> fn, attempt |-> 0, log |-> <<>>, result |-> "none"]

\* one pass of for (let attempt = 0; attempt < 3; attempt++) { ... }
AlertStep(a, r) ==
  LET backoff == IF Retried(r) THEN Backoffs[a.attempt + 1] ELSE ""
      a1 == [a EXCEPT !.log = Append(@, [thrown |-> r.thrown, status |-> r.status,
                                         backoff |-> backoff])]
  IN IF Ok(r) THEN [a1 EXCEPT !.pc = "done", !.result = "true"]
     ELSE IF Retried(r) /\ a.attempt + 1 < MaxAlertAttempts
            THEN [a1 EXCEPT !.attempt = @ + 1]
            ELSE [a1 EXCEPT !.pc = "done", !.result = "false",
                            !.attempt = IF Retried(r) THEN @ + 1 ELSE @]

AlertInit ==
  /\ ItemBase
  /\ variant = "switchboard.ts"
  /\ call = IdleCall
  /\ twin = IdleCall
  /\ query = NoQuery
  /\ health = NoHealth
  /\ parsed = NoParse
  /\ \E fn \in AlertFns, env \in BOOLEAN : alert = NewAlert(fn, env)

AlertFetch ==
  /\ alert.pc = "fetch"
  /\ \E r \in Responses : alert' = AlertStep(alert, r)
  /\ UNCHANGED <<msgs, ledger, runs, timers, lastSuccessfulTickAt, timeouts, crashes,
                 acts, lastCalls, query, health, parsed>>
  /\ UNCHANGED itemVars

AlertNext == AlertFetch

AlertSpec == AlertInit /\ [][AlertNext]_vars

\* ------------------------------------------------- triage.ts: runTriage
\* what the model may put in the action field of its JSON object: the four
\* actions, an action of another vocabulary, a non-string, nothing
JsonActions == TriageActions("switchboard.ts") \cup {"no_reply", "42", "undefined"}
\* the text after the optional code fence is stripped: not JSON, the JSON null,
\* a JSON scalar, a JSON array, a JSON object
JsonKinds == {"invalid", "null", "scalar", "array", "object"}
NoText == [fenced |-> FALSE, json |-> "invalid", action |-> "undefined", reason |-> ""]
Texts ==
  [fenced : BOOLEAN, json : JsonKinds \ {"object"}, action : {"undefined"}, reason : {""}]
    \cup [fenced : BOOLEAN, json : {"object"}, action : JsonActions, reason : TriageReasons]
\* grokComplete resolves with a text, or rejects (network error, bad status,
\* aborted signal)
GrokAnswers ==
  [kind : {"text"}, text : Texts] \cup [kind : {"network", "abort"}, text : {NoText}]
NoGrok == [kind |-> "none", text |-> NoText]

NullTriage == [isNull |-> TRUE, action |-> "", escalation_reason |-> ""]
TriageOf(action, reason) == [isNull |-> FALSE, action |-> action, escalation_reason |-> reason]

\* JSON.parse(text) and obj.action inside the try block: JSON.parse throws on
\* text that is not JSON, obj.action throws when obj is null, and is undefined
\* on a scalar or an array
ActionRead(text) ==
  CASE text.json \in {"invalid", "null"} -> "throw"
    [] text.json \in {"scalar", "array"} -> "undefined"
    [] OTHER -> text.action

\* a parser that takes whatever action the object carries
parseAnyAction(text) ==
  IF ActionRead(text) = "throw" THEN NullTriage
  ELSE TriageOf(ActionRead(text), text.reason)

\* the fence is stripped first and changes nothing else; catch (err) returns
\* null, and so does an action outside the list
parseTriageJson(text) ==
  LET action == ActionRead(text)
  IN IF action = "throw" THEN NullTriage
     ELSE IF action \notin TriageActions("switchboard.ts") THEN NullTriage
     ELSE TriageOf(action, text.reason)

BootTriage(soul, skill) ==
  [pc |-> "load", soul |-> soul, skill |-> skill, grok |-> NoGrok,
   returned |-> FALSE, threw |-> FALSE, result |-> NullTriage]

TriageFrame ==
  /\ UNCHANGED <<msgs, ledger, runs, timers, lastSuccessfulTickAt, timeouts, crashes,
                 acts, lastCalls, query, alert, health>>
  /\ UNCHANGED itemVars

TriageInit ==
  /\ ItemBase
  /\ variant = "switchboard.ts"
  /\ call = IdleCall
  /\ twin = IdleCall
  /\ query = NoQuery
  /\ alert = NoAlert
  /\ health = NoHealth
  /\ \E soul \in BOOLEAN, skill \in BOOLEAN : parsed = BootTriage(soul, skill)

\* loadFile('SOUL.md') never throws; a missing SKILL.md returns null
TriageLoad ==
  /\ parsed.pc = "load"
  /\ parsed' = IF parsed.skill THEN [parsed EXCEPT !.pc = "grok"]
               ELSE [parsed EXCEPT !.pc = "done", !.returned = TRUE,
                                   !.result = NullTriage]
  /\ TriageFrame

\* await grokComplete(...): a rejection is caught and returns null
TriageGrok ==
  /\ parsed.pc = "grok"
  /\ \E g \in GrokAnswers :
       parsed' = IF g.kind = "text" THEN [parsed EXCEPT !.pc = "parse", !.grok = g]
                 ELSE [parsed EXCEPT !.pc = "done", !.grok = g, !.returned = TRUE,
                                     !.result = NullTriage]
  /\ TriageFrame

\* const result = parseTriageJson(text); return result
TriageParse ==
  /\ parsed.pc = "parse"
  /\ parsed' = [parsed EXCEPT !.pc = "done", !.returned = TRUE,
                              !.result = parseTriageJson(parsed.grok.text)]
  /\ TriageFrame

TriageNext == TriageLoad \/ TriageGrok \/ TriageParse

TriageSpec == TriageInit /\ [][TriageNext]_vars

\* ================================================================ claims
\* Helpers of the claims' formulas.
ItemPcs == {"triage", "archiveIgnore", "lookup", "gen", "send", "archive",
            "escDraft", "escAlert"}

\* replies sent in answer to message mid (sendReply sets In-Reply-To to it)
TerminalActions(mid) == acts[mid].send + acts[mid].esc + acts[mid].supp

\* the last message of the thread that run r is about to fetch
NextThread(r) == r.list[r.idx]
LatestOf(t) == msgs[t][Len(msgs[t])]

\* run s leaves the await of getThread with a thread (not a throw, not a crash)
FetchedBy(s) ==
  /\ runs[s].pc = "getThread"
  /\ crashes' = crashes
  /\ runs'[s].pc # "none"
  /\ <<runs'[s].pc, runs'[s].idx>> # <<runs[s].pc, runs[s].idx>>

NoEffectBy(s) ==
  /\ runs'[s].pc \notin ItemPcs
  /\ runs'[s].processed <= runs[s].processed
  /\ ledger' = ledger
  /\ acts' = acts
  /\ msgs' = msgs

\* C1: while the last message of a thread does not change (and the process
\* is not restarted), at most one terminal action (reply sent, escalation,
\* suppression) is executed for that message.
C1_NoDoubleAction ==
  \A t \in Threads :
    (crashes = 0 /\ Len(msgs[t]) = 1 /\ msgs[t][1].messageId # <<>>)
      => TerminalActions(msgs[t][1].messageId) <= 1

\* C2: also when the process crashes and restarts in the middle of a tick,
\* no message is acted on twice: in runs without a tick timeout no message
\* is escalated more than once.
C2_ExactlyOnceAcrossRestarts ==
  timeouts = 0 => \A mid \in AllMids : acts[mid].esc <= 1

\* C3: a run that lost the race against the tick timer while an item's
\* classification was pending never writes the ledger for that item.
C3_NoLedgerWriteAfterTimeout ==
  [][\A s \in Slots :
       (/\ runs[s].role = "zombie"
        /\ runs[s].inflight # <<>>
        /\ runs[s].cur.messageId = runs[s].inflight
        /\ runs'[s] # runs[s])
       => ledger' = ledger]_vars

\* C4: at any time at most one item is between the start of its
\* classification and its ledger write.
C4_SingleWorker ==
  Cardinality({s \in Slots : runs[s].pc \in ItemPcs}) <= 1

\* C5: after every tick (ok, no_tick, threw, timed out) exactly one next
\* tick is scheduled: at every moment either one tick is being awaited or
\* exactly one timer for the next tick is pending.
C5_NextTickScheduled ==
  timers + Cardinality(Racing) = 1

C5_Witness ==
  timeouts > 0 /\ timers = 1 /\ Racing = {} /\ Live # {}

\* C6 (as a property of states, which a finite run refutes): a customer
\* message that a tick answered has a ledger record as soon as no run is
\* working on its thread any more.  In a state that violates this the
\* record can never be written: the last message of the thread is the
\* agent's reply, so every later tick skips the thread.
C6_NoMessageDropped ==
  \A t \in Threads :
    (/\ Len(msgs[t]) > 1
     /\ msgs[t][1].from = CustomerFrom
     /\ msgs[t][1].messageId # <<>>
     /\ LatestOf(t).from = SupportFrom
     /\ \A s \in Slots : runs[s].cur.thread # t)
    => hasProcessed(TenantId, msgs[t][1].messageId)

\* C7: two markProcessed calls for the same tenant and the same message
\* identifier (in any of its forms) with different actions leave exactly
\* one row for the key, with the action and reason of the second call.
SameKeyTwice ==
  /\ Len(lastCalls) = 2
  /\ lastCalls[1].tenantId = lastCalls[2].tenantId
  /\ lastCalls[1].messageId # <<>>
  /\ lastCalls[2].messageId # <<>>
  /\ normalizeMessageId(lastCalls[1].messageId) = normalizeMessageId(lastCalls[2].messageId)
  /\ lastCalls[1].action # lastCalls[2].action

C7_IdempotentUpsert ==
  SameKeyTwice =>
    LET rows == LedgerKeyRows(ledger, lastCalls[2].tenantId,
                              normalizeMessageId(lastCalls[2].messageId))
    IN /\ Cardinality(rows) = 1
       /\ \A r \in rows : /\ r.action = lastCalls[2].action
                           /\ r.escalation_reason = lastCalls[2].escalationReason

C7_Witness ==
  /\ SameKeyTwice
  /\ lastCalls[1].messageId # lastCalls[2].messageId
  /\ Cardinality(ledger) = 1

\* C8: after markProcessed(t, "<id>") or markProcessed(t, "id"), both
\* hasProcessed(t, "<id>") and hasProcessed(t, "id") are true, for every
\* identifier id that has no angle bracket of its own and at least one
\* non-blank character.
BareId(id) ==
  /\ Trim(id) # <<>>
  /\ \A k \in 1..Len(id) : id[k] \notin {"<", ">"}

C8_BracketedAndBareAgree ==
  \A i \in 1..Len(lastCalls) :
    (i = Len(lastCalls) /\ BareId(lastCalls[i].id))
      => /\ hasProcessed(lastCalls[i].tenantId, Bracketed(lastCalls[i].id))
         /\ hasProcessed(lastCalls[i].tenantId, lastCalls[i].id)

\* C9: an item whose last message already has a ledger record of the
\* tenant is skipped: no classification, no routing, no side effect, no
\* ledger write and no count towards processed.
C9_LedgerSkip ==
  [][\A s \in Slots :
       (/\ FetchedBy(s)
        /\ hasProcessed(TenantId, LatestOf(NextThread(runs[s])).messageId))
       => NoEffectBy(s)]_vars

C9_Witness ==
  \E s \in Slots :
    /\ runs[s].pc = "getThread"
    /\ runs[s].idx = 2
    /\ runs[s].processed = 0
    /\ LatestOf("t1").from = CustomerFrom
    /\ hasProcessed(TenantId, LatestOf("t1").messageId)

CountOf(c, fn) == Cardinality({i \in 1..Len(c.log) : c.log[i].fn = fn})
Called(c, fn) == CountOf(c, fn) > 0

\* C11: for the same thread and the same answers of the outside world, the
\* switchboard run with a null classification makes the same sequence of
\* calls (draft, mark handled, alert, sends) as the run with action escalate,
\* and once both have returned their outcome actions are equal.
C11_NullRoutedLikeEscalate ==
  /\ call.log = twin.log
  /\ (call.pc = "done" /\ twin.pc = "done")
       => call.outcome.action = twin.outcome.action

\* the awaits inside try { ... } catch { ... } of the loop body
InTry == {"triage", "archiveIgnore", "lookup", "gen", "send", "archive",
          "escDraft", "escAlert"}

\* run s took a step of its own (no timeout, no restart)
Stepped(s) ==
  /\ runs[s].role # "idle"
  /\ runs'[s] # runs[s]
  /\ timeouts' = timeouts
  /\ crashes' = crashes

HeartbeatErrorRow(led, cur) ==
  \E row \in LedgerKeyRows(led, TenantId, normalizeMessageId(cur.messageId)) :
    /\ row.action = "escalated"
    /\ row.escalation_reason = "Heartbeat error"

C13_NothingPropagates ==
  [][\A s \in Slots :
       (/\ Stepped(s)
        /\ runs[s].pc \in InTry \cup {"getThread"}
        /\ runs'[s].role = "idle")
       => /\ runs[s].idx = Len(runs[s].list)
          /\ runs[s].role = "racing" => lastSuccessfulTickAt']_vars

\* results that report a failure of the call
Faults == {"fail", "throw", "retry", "reject"}
\* no call failed except calls of fn
OnlyFaultIn(c, fn) == \A i \in 1..Len(c.log) : c.log[i].res \in Faults => c.log[i].fn = fn
Answered(c, fn, res) == \E i \in 1..Len(c.log) : c.log[i] = Effect(fn, res)

\* the reply pipeline returned a body, the send reported failure and nothing
\* else failed
SendFailureCase(c) ==
  /\ c.pc = "done"
  /\ Answered(c, "runReplyGenerator", "body")
  /\ Answered(c, "sendReply", "fail")
  /\ OnlyFaultIn(c, "sendReply")

\* C14: when the pipeline returns a body and the send reports failure, the
\* outcome is escalated with reason "Gmail send failed.", performEscalation
\* was invoked exactly once, the one ledger write has action escalated, and
\* sendReply was called exactly once for the item.
C14_SendFailure ==
  SendFailureCase(call) =>
    /\ call.outcome = Escalated("Gmail send failed.")
    /\ call.esc = 1
    /\ call.writes = <<Escalated("Gmail send failed.")>>
    /\ CountOf(call, "sendReply") = 1

\* classification auto_reply, the pipeline returned a body, no call failed
CleanAutoReply(c) ==
  /\ c.pc = "done"
  /\ c.triage = "auto_reply"
  /\ Answered(c, "runReplyGenerator", "body")
  /\ \A i \in 1..Len(c.log) : c.log[i].res \notin Faults

\* C15: a clean auto-reply (classification auto_reply, pipeline returns a body
\* with escalate = false, nothing fails) ends with outcome auto_reply, exactly
\* one sendReply call, no call of performEscalation and exactly one ledger
\* write, whose action is auto_reply.
C15_CleanAutoReply ==
  CleanAutoReply(call) =>
    /\ call.outcome = Plain("auto_reply")
    /\ CountOf(call, "sendReply") = 1
    /\ call.esc = 0
    /\ call.writes = <<Plain("auto_reply")>>
    /\ call.result = "processed"

C15_Witness ==
  /\ CleanAutoReply(call)
  /\ Answered(call, "sendReply", "ok")
  /\ Answered(call, "markProcessed", "ok")

\* the lookups the item made whose result satisfies P
LookupsWhere(c, P(_)) ==
  {i \in 1..Len(c.log) : c.log[i].fn = "lookupOrder" /\ P(LookupResult(c.log[i].res))}

NoOrderFound(lookup) == lookup.success /\ ~lookup.order
AsksForEscalation(lookup) == lookup.escalation_needed \/ ~lookup.success
UsableLookup(lookup) == lookup.success /\ ~lookup.escalation_needed

EscalatedWithoutPipeline(c) ==
  /\ ~Called(c, "runReplyGenerator")
  /\ ~Called(c, "sendReply")
  /\ c.pc = "done" => c.outcome.action = "escalated"

C17_EscalationNeverSends ==
  (call.pc = "done" /\ call.outcome.action = "escalated")
    => ~Answered(call, "sendReply", "ok")

\* the item is inside performEscalation
InEscalation(c) == c.pc \in EscPcs \/ (c.pc = "alert" /\ c.after = "escReturn")
LastAnswer(c) == c.log[Len(c.log)]

\* C18: performEscalation is total: every step taken inside it either stays
\* inside it or returns normally to the caller it was entered from
\* (runSwitchboard, which then returns its outcome, or the catch block of the
\* tick, which then writes the ledger row), whatever its steps answer; a throw
\* of the mark-handled call leads to the fallback alert.
C18_EscalationTotal ==
  [][InEscalation(call) =>
       /\ call'.esc = call.esc
       /\ call'.ret = call.ret
       /\ call'.result = "running"
       /\ \/ InEscalation(call')
          \/ call'.pc = IF call.ret = "switchboard" THEN "write" ELSE "writeCatch"
       /\ (call.pc \in {"markHandled", "starFallback"} /\ LastAnswer(call').res = "throw")
            => call'.pc = "escFallback"]_vars

\* entered from the catch block, label, mark-handled and fallback alert all
\* failed, and performEscalation has returned
C18_Witness ==
  /\ call.pc = "writeCatch"
  /\ call.result = "running"
  /\ Answered(call, "getOrCreateEscalationLabel", "fail")
  /\ Answered(call, "markThreadHandledLegacyFallback", "throw")
  /\ Answered(call, "sendTelegramEscalationFallback", "fail")

\* the calls of the most recent invocation of performEscalation
EscStart(c) ==
  LET starts == {i \in 1..Len(c.log) : c.log[i].fn = "getOrCreateEscalationLabel"}
  IN CHOOSE i \in starts : \A j \in starts : j <= i
EscLog(c) == SubSeq(c.log, EscStart(c), Len(c.log))
EscCalled(c, fn) == \E i \in 1..Len(EscLog(c)) : EscLog(c)[i].fn = fn
EscReturned(c) == c.esc > 0 /\ c.pc \in {"write", "writeCatch", "done"}

\* C19: when performEscalation has returned, each of its steps was attempted
\* whatever the other steps answered: the main alert was attempted, and if a
\* draft was attempted (created or not) the thread was marked handled or the
\* mark-handled call was at least attempted.
C19_StepsIndependent ==
  EscReturned(call) =>
    /\ EscCalled(call, "sendTelegramEscalationAlert")
    /\ EscCalled(call, "createSmartDraft") =>
         \/ EscCalled(call, "markThreadHandled")
         \/ EscCalled(call, "markThreadHandledLegacyFallback")

\* positions, in the most recent invocation of performEscalation, of the
\* fetches of the main alert and of the calls of the fallback alert
AlertFetches(c) ==
  {i \in 1..Len(EscLog(c)) : EscLog(c)[i].fn = "sendTelegramEscalationAlert"}
FallbackCalls(c) ==
  {i \in 1..Len(EscLog(c)) : EscLog(c)[i].fn = "sendTelegramEscalationFallback"}
\* the main alert was attempted and no fetch of it succeeded
MainAlertFailed(c) ==
  /\ AlertFetches(c) # {}
  /\ \A i \in AlertFetches(c) : EscLog(c)[i].res # "ok"
\* a Gmail call of performEscalation failed: the draft was not created or the
\* mark-handled call threw
GmailStepFailed(c) ==
  \E i \in 1..Len(EscLog(c)) :
    \/ EscLog(c)[i] = Effect("createSmartDraft", "fail")
    \/ EscLog(c)[i] = Effect("markThreadHandled", "throw")
    \/ EscLog(c)[i] = Effect("markThreadHandledLegacyFallback", "throw")

\* C20 as claimed: when performEscalation has returned and delivery of the
\* main alert failed (attempts exhausted or a non-retryable status), a
\* fallback alert was attempted after it.
C20_FallbackOnAlertFailure ==
  (EscReturned(call) /\ MainAlertFailed(call))
    => \E f \in FallbackCalls(call) : \A a \in AlertFetches(call) : a < f

\* C20 amended: the fallback alert is attempted exactly when a Gmail step of
\* performEscalation failed (draft not created, or mark-handled threw); it is
\* never sent after the main alert, whose failure is only logged.
C20_FallbackOnGmailFailure ==
  EscReturned(call) =>
    /\ FallbackCalls(call) # {} <=> GmailStepFailed(call)
    /\ \A f \in FallbackCalls(call) : \A a \in AlertFetches(call) : f < a

\* the main alert was rejected, nothing else failed, performEscalation returned
C20_Witness ==
  /\ EscReturned(call)
  /\ MainAlertFailed(call)
  /\ ~GmailStepFailed(call)
  /\ LastAnswer(call) = Effect("sendTelegramEscalationAlert", "reject")

\* C21: hasProcessed never throws: every call returns a boolean, and when the
\* store fails to open or to answer the query the boolean is false.
C21_HasProcessedNeverThrows ==
  query.result # "none" =>
    /\ query.result \in {"true", "false"}
    /\ query.storage # "ok" => query.result = "false"

\* the step ends a tick: the race of tick() settles
TickEnds == TickRunning /\ health'.pc = "waiting"

\* C22: lastSuccessfulTickAt is written only when a tick completes cleanly: a
\* tick that timed out or threw leaves it as it was, every tick that returned
\* ok or no_tick sets it to the time of its completion, and no other step
\* changes it.
C22_LastSuccessOnlyOnCleanTick ==
  [][/\ health'.last # health.last => TickEnds /\ health'.result \in {"ok", "no_tick"}
     /\ (TickEnds /\ health'.result \in {"ok", "no_tick"})
          => health'.last = DateAt(health.now)
     /\ (TickEnds /\ health'.result \in {"timeout", "threw"})
          => health'.last = health.last]_vars

\* a clean tick, later a tick that timed out: the older timestamp is kept
C22_Witness ==
  /\ health.pc = "waiting"
  /\ health.result = "timeout"
  /\ ~health.last.isNull
  /\ health.last.at < health.now

C24_TickResult ==
  (health.pc = "waiting" /\ health.result \in {"ok", "no_tick"}) =>
    /\ health.result = "ok" <=> health.handled >= 1
    /\ (health.total = 0 \/ health.handled = 0) => health.result = "no_tick"

\* two listed items, one skipped and one handled: ok
C24_Witness ==
  /\ health.pc = "waiting"
  /\ health.result = "ok"
  /\ health.total = 2
  /\ health.idx = 2
  /\ health.handled = 1

\* the attempts of the alert followed by a further attempt
Reattempted(a) == 1..(Len(a.log) - 1)
BackoffsTaken(a) == [i \in 1..Len(a.log) |-> a.log[i].backoff]
IsPrefix(p, q) == Len(p) <= Len(q) /\ \A i \in 1..Len(p) : p[i] = q[i]
ErrorStatus(e) == ~e.thrown /\ ~(e.status >= 200 /\ e.status <= 299)
NothingReceived(e) == e.thrown /\ e.status = 0

\* C25 as claimed: at most 3 attempts; a further attempt follows only a 429
\* or a status >= 500, with backoffs 1s, 3s, 8s in that order; any other error
\* status ends the alert as failed at once.
C25_RetryOnStatusOnly ==
  /\ Len(alert.log) <= MaxAlertAttempts
  /\ \A i \in Reattempted(alert) :
       /\ alert.log[i].status = 429 \/ alert.log[i].status >= 500
       /\ alert.log[i].backoff = Backoffs[i]

\* C25 amended: at most 3 attempts; a further attempt follows a 429, a
\* status >= 500, or a fetch or a read of the error body that threw, after the
\* backoff of that attempt (1s, 3s, 8s in order, the last one also waited
\* before giving up); any other error status whose body was read ends the
\* alert as failed with no backoff and no retry; an alert that succeeds does
\* so on a 2xx of its last attempt.
C25_RetryDiscipline ==
  /\ Len(alert.log) <= MaxAlertAttempts
  /\ \A i \in Reattempted(alert) :
       LET e == alert.log[i]
       IN /\ e.thrown \/ e.status = 429 \/ e.status >= 500
          /\ e.backoff = Backoffs[i]
  /\ \A i \in 1..Len(alert.log) :
       LET e == alert.log[i]
       IN /\ (ErrorStatus(e) /\ e.status # 429 /\ e.status < 500) =>
               /\ i = Len(alert.log)
               /\ e.backoff = ""
               /\ alert.result = "false"
          /\ e.backoff # "" => e.backoff = Backoffs[i]
  /\ alert.result = "true" =>
       LET e == alert.log[Len(alert.log)] IN ~e.thrown /\ e.status = 200
  /\ (alert.pc = "fetch" /\ alert.log # <<>>) =>
       alert.log[Len(alert.log)].backoff # ""

\* three attempts: a thrown fetch, a 429 and a 503, each followed by its backoff
C25_Witness ==
  /\ alert.pc = "done"
  /\ alert.result = "false"
  /\ Len(alert.log) = 3
  /\ NothingReceived(alert.log[1])
  /\ alert.log[2].status = 429
  /\ alert.log[3].status = 503
  /\ BackoffsTaken(alert) = Backoffs

\* the classification asks to suppress: ignore (switchboard.ts), no_reply (memory.ts)
Suppressing(c) == c.triage \in {"ignore", "no_reply"}
MarkQuietly(v) == IF v = "switchboard.ts" THEN "archiveThread" ELSE "applyExclusiveStatusLabel"
\* calls that reach the customer or the operator, or belong to performEscalation
LoudCalls ==
  {"sendReply", "sendTelegramEscalationAlert", "sendTelegramEscalationFallback",
   "getOrCreateEscalationLabel", "createSmartDraft", "markThreadHandled",
   "markThreadHandledLegacyFallback"}
ThrewBefore(c, i) == \E j \in 1..(i - 1) : c.log[j].res = "throw"

\* C26: for a classification with action suppress the switchboard only marks
\* the thread (archive, or the no-reply label), never enters performEscalation,
\* sends no alert and no reply, and returns the suppressed outcome with no
\* escalation reason, which is what the tick then records; the escalation
\* terminal and alerts appear only after an exception left the switchboard
\* (or the ledger write) and the catch block of the tick took over.
C26_Suppress ==
  Suppressing(call) =>
    /\ call.esc > 0 => call.ret = "catch"
    /\ call.log # <<>> => call.log[1].fn = MarkQuietly(variant)
    /\ \A i \in 1..Len(call.log) :
         call.log[i].fn \in LoudCalls => ThrewBefore(call, i)
    /\ (call.log # <<>> /\ call.log[1].res = "ok") =>
         /\ Len(call.log) = 1 => (call.pc = "write" /\ call.outcome = Plain(call.triage))
         /\ Len(call.log) > 1 => call.log[2].fn = "markProcessed"
         /\ (Len(call.log) > 1 /\ call.log[2].res = "ok") =>
              /\ call.pc = "done"
              /\ call.esc = 0
              /\ call.writes = <<Plain(call.triage)>>

\* a suppressed item was marked and recorded as suppressed
C26_Witness ==
  /\ Suppressing(call)
  /\ call.pc = "done"
  /\ call.log = <<Effect(MarkQuietly(variant), "ok"), Effect("markProcessed", "ok")>>
  /\ call.writes = <<Plain(call.triage)>>

\* the step leaves the start of a commerce lookup with the store URL or the
\* access token missing
ConfigErrorStep ==
  /\ call.pc = "start"
  /\ call.triage = "shopify_lookup"
  /\ call' # call
  /\ call' # ItemStep(variant, call, "configured")

\* C27: for action shopify_lookup with the store URL or the access token
\* missing, lookupOrder is not attempted, performEscalation is invoked with
\* the remediation string naming what is missing, and the outcome to return
\* is escalated with that string.
C27_ConfigError ==
  [][ConfigErrorStep =>
       /\ call'.pc # "lookup"
       /\ call'.outcome.action = "escalated"
       /\ call'.outcome.escalationReason \in {"no_url", "no_token"}
       /\ call'.esc = 1
       /\ call'.ret = "switchboard"
       /\ call'.detail = call'.outcome.escalationReason]_vars

\* the pipeline has just answered with an empty body and escalate = false
EmptyBodyStep ==
  /\ call.pc = "gen"
  /\ call' = ItemStep(variant, call, "empty")
Unlogged(c) == [c EXCEPT !.log = <<>>]

WellFormed(text) ==
  text.json = "object" /\ text.action \in {"auto_reply", "shopify_lookup", "escalate", "ignore"}

\* C29: runTriage never throws; it returns null or a result whose action is
\* one of auto_reply, shopify_lookup, escalate, ignore; it returns null when
\* SKILL.md is missing, when the Grok call fails or is aborted, when the text
\* does not parse to an object, and when the action is outside the list, and
\* it returns the action of the object otherwise.
C29_TriageTotal ==
  /\ ~parsed.threw
  /\ parsed.pc = "done" =>
       /\ parsed.returned
       /\ parsed.result.isNull \/ parsed.result.action \in TriageActions("switchboard.ts")
       /\ parsed.result.isNull <=>
            \/ ~parsed.skill
            \/ parsed.grok.kind \in {"network", "abort"}
            \/ ~WellFormed(parsed.grok.text)
       /\ ~parsed.result.isNull => parsed.result.action = parsed.grok.text.action

\* a fenced JSON object with an action of another vocabulary gave null
C29_Witness ==
  /\ parsed.pc = "done"
  /\ parsed.grok.kind = "text"
  /\ parsed.grok.text.fenced
  /\ parsed.grok.text.json = "object"
  /\ parsed.grok.text.action = "no_reply"
  /\ parsed.result = NullTriage

\* the identifiers hasProcessed may be asked about: the Message-ID headers of
\* the mailbox and the identifiers stored in the ledger
AskedIds == AllMids \cup {r.gmail_message_id : r \in ledger}

\* C30: no step of a tick, of the tick timer or of a restart of the process
\* deletes a ledger row: a (tenant, message) pair that hasProcessed answers
\* true for is answered true after the step, and the number of rows does not
\* decrease.
C30_NeverDeleted ==
  [][/\ \A m \in AskedIds :
          hasProcessedIn(ledger, TenantId, m) => hasProcessedIn(ledger', TenantId, m)
     /\ Cardinality(ledger') >= Cardinality(ledger)]_vars

\* the process died after the first row was written; both rows are there
C30_Witness ==
  /\ crashes = 1
  /\ Cardinality(ledger) = 2
  /\ \A m \in {MsgIdOf("t1", 1), MsgIdOf("t2", 1)} : hasProcessedIn(ledger, TenantId, m)

\* where an item is: its classification is awaited (1), a routing input is
\* awaited (2), a side effect is awaited (3); 0 is the fetch of the thread
PhaseOf(pc) ==
  CASE pc = "triage" -> 1
    [] pc \in {"lookup", "gen"} -> 2
    [] pc \in {"send", "archive", "archiveIgnore", "escDraft", "escAlert"} -> 3
    [] OTHER -> 0

AtLedgerWrite(c) == c.pc \in {"write", "writeCatch"}

\* C32: no step of runSwitchboard or of performEscalation writes the ledger;
\* the only steps that do are the markProcessed calls of the tick (the one of
\* the try block, the one of the catch block), each writes one record, and an
\* item that was counted as processed was written exactly once.
C32_LedgerOwnership ==
  [][/\ ~AtLedgerWrite(call) => call'.writes = call.writes
     /\ AtLedgerWrite(call) =>
          \/ call'.writes = call.writes
          \/ call'.writes = Append(call.writes, call.outcome)
     /\ Len(call'.writes) <= 1
     /\ call'.result = "processed" => Len(call'.writes) = 1]_vars

\* the write of the try block threw, the catch block escalated and recorded
C32_Witness ==
  /\ call.pc = "done"
  /\ call.result = "processed"
  /\ Answered(call, "markProcessed", "throw")
  /\ call.esc > 0
  /\ call.writes = <<Escalated("Heartbeat error")>>

\* the most recent markProcessed call
LastMark == lastCalls'[Len(lastCalls')]
OffKey(tenantId, mid) ==
  tenantId # LastMark.tenantId \/ mid # normalizeMessageId(LastMark.messageId)

\* C33: a markProcessed(t1, m, ...) call adds or rewrites only the row keyed
\* (t1, normalized m): every row of another tenant or another identifier is
\* kept as it is, no such row appears, and hasProcessed answers as before for
\* every other tenant and for every identifier that normalizes differently
\* (asked for the identifiers of the calls made so far, bare and bracketed).
C33_TenantScoped ==
  [][lastCalls' # lastCalls =>
       /\ \A r \in ledger : OffKey(r.tenant_id, r.gmail_message_id) => r \in ledger'
       /\ \A r \in ledger' : OffKey(r.tenant_id, r.gmail_message_id) => r \in ledger
       /\ \A t \in LedgerTenants, i \in 1..Len(lastCalls'), bracketed \in BOOLEAN :
            LET m == IF bracketed THEN Bracketed(lastCalls'[i].id) ELSE lastCalls'[i].id
            IN OffKey(t, normalizeMessageId(m)) =>
                 hasProcessedIn(ledger', t, m) = hasProcessedIn(ledger, t, m)]_vars

\* the same identifier was recorded for two tenants with different actions
C33_Witness ==
  /\ Len(lastCalls) = 2
  /\ lastCalls[1].tenantId # lastCalls[2].tenantId
  /\ lastCalls[1].id = lastCalls[2].id
  /\ lastCalls[1].action # lastCalls[2].action
  /\ Cardinality(ledger) = 2
  /\ \A i \in 1..2 :
       \E r \in ledger : r.tenant_id = lastCalls[i].tenantId /\ r.action = lastCalls[i].action

\* a reply was delivered to the customer for the item
ReplySent(c) == Answered(c, "sendReply", "ok")

\* C34: the action recorded in the ledger matches what was done for the
\* message: a record with action auto_reply or shopify_lookup is written only
\* when a reply was sent, and a record with action escalated only when no
\* reply was sent, also when a step after a successful send throws.
C34_RecordMatchesEffect ==
  \A i \in 1..Len(call.writes) :
    /\ call.writes[i].action \in {"auto_reply", "shopify_lookup"} => ReplySent(call)
    /\ call.writes[i].action = "escalated" => ~ReplySent(call)

\* C35: performEscalation is invoked at most once for an item, on every path,
\* also when the switchboard escalated and the ledger write that follows
\* throws.
C35_EscalatedAtMostOnce == call.esc <= 1

\* the outcome carries an escalation reason: neither undefined nor empty
HasReason(o) == o.escalationReason \notin {"null", ""}
ReasonConsistent(o) == HasReason(o) <=> o.action = "escalated"

\* C36: the outcome a switchboard returns, the outcome of the catch block, and
\* every ledger record written from them have a non-empty escalation reason
\* exactly when their action is escalated, whatever the classification, also
\* when its reason and escalation_reason are both empty.
C36_ReasonConsistent ==
  /\ call.pc \in {"write", "writeCatch", "done"} /\ call.outcome # NoOutcome
       => ReasonConsistent(call.outcome)
  /\ \A i \in 1..Len(call.writes) : ReasonConsistent(call.writes[i])

\* the getProfile call of run s failed: the run ends at its profile step
ProfileFailed(s) ==
  /\ Stepped(s)
  /\ runs[s].pc = "profile"
  /\ runs'[s].role = "idle"

\* some listed thread waits with an unrecorded message of a customer
EligibleItem ==
  \E i \in 1..Len(Listing) :
    /\ LatestOf(Listing[i]).from = CustomerFrom
    /\ LatestOf(Listing[i]).messageId # <<>>
    /\ ~hasProcessed(TenantId, LatestOf(Listing[i]).messageId)

\* C37: when getProfile fails the run ends there: it had classified nothing
\* and counted nothing, the step changes neither mailbox, side effects nor
\* ledger, so every item is as eligible as before; the run returns no_tick,
\* which tick() takes as a clean tick, and the next tick is scheduled.
C37_ProfileFailure ==
  [][\A s \in Slots :
       ProfileFailed(s) =>
         /\ runs[s].idx = 0
         /\ runs[s].processed = 0
         /\ runs[s].cur = NoCur
         /\ msgs' = msgs
         /\ acts' = acts
         /\ ledger' = ledger
         /\ runs[s].role = "racing" =>
              (lastSuccessfulTickAt' /\ timers' = timers + 1)]_vars

\* a later tick, after one that recorded nothing, is resolving the address
\* while an item is still waiting
C37_Witness ==
  /\ runs["main"].pc = "profile"
  /\ lastSuccessfulTickAt
  /\ timeouts = 0
  /\ crashes = 0
  /\ ledger = {}
  /\ \A m \in AllMids : acts[m] = NoActs
  /\ EligibleItem

\* C38: while no tick has completed cleanly since boot (lastSuccessfulTickAt
\* is null) every probe is answered 200, whatever the ticks did and however
\* late it is; a probe answered 500 saw the date of a clean tick, and the
\* date is never null again after it.
C38_HealthyUntilFirstCleanTick ==
  /\ health.last.isNull => HealthAnswer(health.last, health.now) = 200
  /\ health.probe # NoProbe =>
       /\ health.probe.last.isNull => health.probe.status = 200
       /\ health.probe.status = 500 => (~health.probe.last.isNull /\ ~health.last.isNull)

\* a tick timed out, no tick was ever clean, the stale period is over, and
\* the probe made now was answered 200
C38_Witness ==
  /\ health.result = "timeout"
  /\ health.last.isNull
  /\ health.now > HealthStale
  /\ health.probe.now = health.now
  /\ health.probe.last.isNull
  /\ health.probe.status = 200

\* replies the agent sent in thread t, and messages of other senders in it
RepliesIn(t) ==
  Cardinality({i \in 2..Len(msgs[t]) : msgs[t][i].from = SupportFrom})
InboundIn(t) ==
  Cardinality({i \in 1..Len(msgs[t]) : msgs[t][i].from # SupportFrom})

\* C39: a thread whose last message is the agent's own is fetched and left
\* alone by every tick (no classification, no side effect, no ledger write),
\* and so the replies sent in a thread never outnumber the messages of other
\* senders in it.
C39_NoSelfReplyLoop ==
  [][/\ \A s \in Slots :
          (FetchedBy(s) /\ LatestOf(NextThread(runs[s])).from = SupportFrom)
            => NoEffectBy(s)
     /\ \A t \in Threads : (RepliesIn(t) <= InboundIn(t))']_vars

\* positions of the mark-handled calls of the most recent invocation of
\* performEscalation
MarkCalls(c) ==
  {i \in 1..Len(EscLog(c)) :
     EscLog(c)[i].fn \in {"markThreadHandled", "markThreadHandledLegacyFallback"}}
\* createSmartDraft of the most recent invocation answered false
DraftFailed(c) ==
  \E i \in 1..Len(EscLog(c)) : EscLog(c)[i] = Effect("createSmartDraft", "fail")
\* performEscalation has been entered and its first await was answered
EscUnderWay(c) == c.esc > 0 /\ c.pc # "label"

\* C40: inside performEscalation a mark-handled call (label and star, or star
\* alone) is made only after createSmartDraft answered true in the same
\* invocation; with a last message lacking sender or message id no draft is
\* attempted, and then, or when the draft was not created, no mark-handled
\* call is made.
C40_MarkedOnlyAfterDraft ==
  EscUnderWay(call) =>
    /\ \A i \in MarkCalls(call) :
         \E j \in 1..(i - 1) : EscLog(call)[j] = Effect("createSmartDraft", "ok")
    /\ ~call.hasTo => ~EscCalled(call, "createSmartDraft")
    /\ (~call.hasTo \/ DraftFailed(call))
         => MarkCalls(call) = {}

\* the first invocation created the draft and marked the thread, the second
\* one (from the catch block) did not create its draft and has returned
C40_Witness ==
  /\ EscReturned(call)
  /\ call.esc = 2
  /\ call.hasTo
  /\ Answered(call, "createSmartDraft", "ok")
  /\ Answered(call, "markThreadHandled", "ok")
  /\ DraftFailed(call)
  /\ MarkCalls(call) = {}

====
